---------------------------- MODULE Spec2Model ----------------------------
(***************************************************************************)
(* Model of zeroshot.py: the command-line entry point that selects the     *)
(* agent, and the two agents' __call__ life cycle with their response      *)
(* parsers, ClassificationAgent.extract_label and                          *)
(* SQLGenerationAgent.parse_sql.                                           *)
(*                                                                         *)
(* A text is a sequence of one-character strings.  The regular expressions *)
(* are modelled by the scan the regex engine performs on such a sequence.  *)
(***************************************************************************)
EXTENDS Integers, Sequences, FiniteSets, TLC

VARIABLES
    mainpc,         \* position of the __main__ block
    args,           \* the parsed command line
    max_tokens,     \* max_tokens chosen by the __main__ block
    agent_name,     \* agent class chosen by the __main__ block
    llm_config,     \* configuration handed to the agent's constructor
    model,          \* self.model: how the weights were loaded
    main_error,     \* exception raised by the __main__ block
    pc,             \* position inside Agent.__call__
    label2desc,     \* argument of ClassificationAgent.__call__
    text,           \* argument of ClassificationAgent.__call__
    table_schema,   \* argument of SQLGenerationAgent.__call__
    user_query,     \* argument of SQLGenerationAgent.__call__
    prompt,         \* local prompt
    messages,       \* local messages
    response,       \* local response
    numbers,        \* local numbers of extract_label
    result,         \* local prediction / sql_code
    log_info,       \* self.log_info
    error,          \* exception that left __call__
    steps,          \* history: the steps of the current invocation, in order
    generations,    \* history: the requests the completion service received
    rng_calls       \* history: calls of random.choice in the current invocation

vars == <<mainpc, args, max_tokens, agent_name, llm_config,
          model, main_error, pc, label2desc, text, table_schema, user_query,
          prompt, messages, response, numbers, result, log_info, error,
          steps, generations, rng_calls>>

mainVars == <<mainpc, args, max_tokens, agent_name,
              llm_config, model, main_error>>

callVars == <<pc, label2desc, text, table_schema, user_query, prompt,
              messages, response, numbers, result, log_info, error, steps,
              generations, rng_calls>>

-----------------------------------------------------------------------------
(* Bounds of the model *)

\* longest classification response, in characters
MaxTextLen == 4
\* label keys are drawn from 0..MaxKey and the two-digit key 10
MaxKey == 1
\* longest SQL response, in pieces of SqlPieces
MaxPieces == 5

\* Python's None, where a text is expected: no text holds this element
None == <<"None">>

-----------------------------------------------------------------------------
(* Texts *)

Digits == {"0", "1", "2", "3", "4", "5", "6", "7", "8", "9"}

Whitespace == {" ", "\n", "\t", "\r"}

DigitValue(c) ==
    CASE c = "0" -> 0 [] c = "1" -> 1 [] c = "2" -> 2 [] c = "3" -> 3
      [] c = "4" -> 4 [] c = "5" -> 5 [] c = "6" -> 6 [] c = "7" -> 7
      [] c = "8" -> 8 [] c = "9" -> 9

DigitChar(d) ==
    CASE d = 0 -> "0" [] d = 1 -> "1" [] d = 2 -> "2" [] d = 3 -> "3"
      [] d = 4 -> "4" [] d = 5 -> "5" [] d = 6 -> "6" [] d = 7 -> "7"
      [] d = 8 -> "8" [] d = 9 -> "9"

\* int(number) for a run of digits: leading zeros do not change the value
RECURSIVE IntOf(_)
IntOf(number) ==
    IF Len(number) = 0 THEN 0
    ELSE 10 * IntOf(SubSeq(number, 1, Len(number) - 1))
         + DigitValue(number[Len(number)])

\* str(k) for an integer k >= 0: decimal, no leading zeros
RECURSIVE StrOfInt(_)
StrOfInt(k) ==
    IF k < 10 THEN <<DigitChar(k)>>
    ELSE StrOfInt(k \div 10) \o <<DigitChar(k % 10)>>

-----------------------------------------------------------------------------
(* ClassificationAgent.extract_label *)

\* last index of the maximal run of digits that starts at i (s[i] is a digit)
RECURSIVE DigitRunEnd(_, _)
DigitRunEnd(s, i) ==
    IF i + 1 <= Len(s) /\ s[i + 1] \in Digits THEN DigitRunEnd(s, i + 1) ELSE i

\* re.findall(r"(\d+)\.", s) from position i on: \d+ is greedy, so a match at
\* i takes the whole run of digits and needs a period right after it; giving
\* digits back never helps, since what follows a shorter run is a digit.  A
\* failed position moves the scan one character on, a match moves it past
\* the period.
RECURSIVE FindFrom(_, _)
FindFrom(s, i) ==
    IF i > Len(s) THEN <<>>
    ELSE IF s[i] \in Digits
         THEN LET e == DigitRunEnd(s, i)
              IN  IF e + 1 <= Len(s) /\ s[e + 1] = "."
                  THEN <<SubSeq(s, i, e)>> \o FindFrom(s, e + 2)
                  ELSE FindFrom(s, i + 1)
         ELSE FindFrom(s, i + 1)

FindAll(s) == FindFrom(s, 1)

\* the multi-match branch keeps numbers[0]
LastNumber(nums) == nums[Len(nums)]

FirstNumber(nums) == nums[1]

\* int(number) in label2desc
InLabelSet(number, l2d) == IntOf(number) \in DOMAIN l2d

\* random.choice(list(label2desc.keys())): any key, IndexError on no key
RandomChoiceByIndex(l2d) ==
    IF DOMAIN l2d = {} THEN {[raised |-> TRUE, value |-> 0]}
    ELSE {[raised |-> FALSE, value |-> i] : i \in 0..(Cardinality(DOMAIN l2d) - 1)}

RandomChoice(l2d) ==
    IF DOMAIN l2d = {} THEN {[raised |-> TRUE, value |-> 0]}
    ELSE {[raised |-> FALSE, value |-> k] : k \in DOMAIN l2d}

Returned(value, rng) == [raised |-> FALSE, error |-> "", value |-> value, rng |-> rng]

Raised(err, rng) == [raised |-> TRUE, error |-> err, value |-> None, rng |-> rng]

\* both random branches: prediction = random.choice(...), then str(prediction)
RandomFallback(l2d) ==
    {IF c.raised THEN Raised("IndexError", 1) ELSE Returned(StrOfInt(c.value), 1) :
        c \in RandomChoice(l2d)}

\* the set of outcomes of extract_label(pred_text, label2desc); str(prediction)
\* leaves a digit run as it is
extract_label(pred_text, l2d) ==
    LET nums == FindAll(pred_text)
    IN  IF Len(nums) = 1
        THEN IF InLabelSet(nums[1], l2d)
             THEN {Returned(nums[1], 0)}
             ELSE RandomFallback(l2d)
        ELSE IF Len(nums) > 1
             THEN {Returned(FirstNumber(nums), 0)}
             ELSE RandomFallback(l2d)

-----------------------------------------------------------------------------
(* Inputs of the classification agent *)

ClsAlphabet == {"0", "1", "2", ".", "a"}

ClsTexts == UNION {[1..n -> ClsAlphabet] : n \in 0..MaxTextLen}

LabelKeys == (0..MaxKey) \cup {10}

Description(k) == <<"d">>

LabelSets == {[k \in S |-> Description(k)] : S \in SUBSET LabelKeys}

PatientTexts == {<<"p">>}

-----------------------------------------------------------------------------
(* SQLGenerationAgent.parse_sql *)

\* the character ` (a TLA+ string literal cannot hold it)
Backtick == "BACKTICK"

OpenFence == <<Backtick, Backtick, Backtick, "s", "q", "l">>

CloseFence == <<Backtick, Backtick, Backtick>>

\* pat occurs in s at position i
OccursAt(s, i, pat) ==
    i >= 1 /\ i + Len(pat) - 1 <= Len(s) /\ SubSeq(s, i, i + Len(pat) - 1) = pat

Minimum(S) == CHOOSE x \in S : \A y \in S : x <= y

Maximum(S) == CHOOSE x \in S : \A y \in S : x >= y

\* positions at or after from where the closing ``` can match
ClosePositions(s, from) == {j \in from..Len(s) : OccursAt(s, j, CloseFence)}

\* [\s\S]*? is lazy: it stops at the first position where ``` follows
GreedyClose(s, from) == Maximum(ClosePositions(s, from))

LazyClose(s, from) == Minimum(ClosePositions(s, from))

\* positions where the whole pattern ```sql([\s\S]*?)``` can match
MatchStarts(s) ==
    {i \in 1..Len(s) : OccursAt(s, i, OpenFence)
                       /\ ClosePositions(s, i + Len(OpenFence)) # {}}

\* re.search(pattern, s): the leftmost match, and its group 1
Search(s) ==
    IF MatchStarts(s) = {} THEN [found |-> FALSE, group1 |-> None]
    ELSE LET i == Minimum(MatchStarts(s))
             b == i + Len(OpenFence)
         IN  [found |-> TRUE, group1 |-> SubSeq(s, b, LazyClose(s, b) - 1)]

RECURSIVE LStrip(_)
LStrip(s) ==
    IF Len(s) > 0 /\ s[1] \in Whitespace THEN LStrip(Tail(s)) ELSE s

RECURSIVE RStrip(_)
RStrip(s) ==
    IF Len(s) > 0 /\ s[Len(s)] \in Whitespace
    THEN RStrip(SubSeq(s, 1, Len(s) - 1)) ELSE s

\* str.strip()
Strip(s) == RStrip(LStrip(s))

\* a parse_sql that trims on both branches
parse_sql_trim_raw(pred_text) ==
    LET match == Search(pred_text)
    IN  IF match.found THEN Strip(match.group1) ELSE Strip(pred_text)

\* a parse_sql that returns the captured group untrimmed
parse_sql_no_strip(pred_text) ==
    LET match == Search(pred_text)
    IN  IF match.found THEN match.group1 ELSE pred_text

parse_sql(pred_text) ==
    LET match == Search(pred_text)
    IN  IF match.found THEN Strip(match.group1) ELSE pred_text

-----------------------------------------------------------------------------
(* Inputs of the SQL agent *)

SqlPieces == {OpenFence, CloseFence, <<Backtick>>, <<" ">>, <<"\n">>, <<"S">>}

RECURSIVE Flatten(_)
Flatten(ps) == IF Len(ps) = 0 THEN <<>> ELSE Head(ps) \o Flatten(Tail(ps))

SqlTexts == {Flatten(ps) : ps \in UNION {[1..n -> SqlPieces] : n \in 0..MaxPieces}}

TableSchemas == {<<"T">>}

UserQueries == {<<"Q">>}

-----------------------------------------------------------------------------
(* The __main__ block *)

ClassificationPrefix == <<"c", "l", "a", "s", "s", "i", "f", "i", "c", "a", "t", "i", "o", "n">>

SqlGenerationPrefix == <<"s", "q", "l", "_", "g", "e", "n", "e", "r", "a", "t", "i", "o", "n">>

ClassificationMaxTokens == 32

SqlGenerationMaxTokens == 512

\* a startswith that accepts the prefix itself only
StartsWithWhole(name, prefix) == name = prefix

\* str.startswith
StartsWith(name, prefix) ==
    Len(name) >= Len(prefix) /\ SubSeq(name, 1, Len(prefix)) = prefix

\* the if / elif / else on args.bench_name
SelectBenchmark(name) ==
    IF StartsWith(name, ClassificationPrefix)
    THEN [raised |-> FALSE, max_tokens |-> ClassificationMaxTokens,
          agent_name |-> "ClassificationAgent"]
    ELSE IF StartsWith(name, SqlGenerationPrefix)
         THEN [raised |-> FALSE, max_tokens |-> SqlGenerationMaxTokens,
               agent_name |-> "SQLGenerationAgent"]
         ELSE [raised |-> TRUE, max_tokens |-> 0, agent_name |-> "None"]

\* llm_config as the __main__ block builds it
LlmConfig(a, tokens) ==
    [model_name |-> a.model_name,
     exp_name   |-> <<"zeroshot", a.bench_name, a.model_name, a.use_8bit>>,
     bench_name |-> a.bench_name,
     max_tokens |-> tokens,
     do_sample  |-> FALSE,
     device     |-> a.device,
     use_8bit   |-> a.use_8bit]

NoConfig == LlmConfig([model_name |-> "None", bench_name |-> <<>>,
                       device |-> "None", use_8bit |-> FALSE], 0)

\* LocalModelAgent.__init__: the two ways of loading the weights
LoadModel(config) == IF config.use_8bit THEN "int8" ELSE "float16"

\* names with either prefix, with a suffix, and names with neither: a proper
\* prefix of a prefix, a prefix that is not at the start, another case, none
BenchNames ==
    {ClassificationPrefix,
     ClassificationPrefix \o <<"_", "p", "u", "b", "l", "i", "c">>,
     SqlGenerationPrefix,
     SqlGenerationPrefix \o <<"_", "p", "u", "b", "l", "i", "c">>,
     SubSeq(ClassificationPrefix, 1, Len(ClassificationPrefix) - 1),
     SubSeq(SqlGenerationPrefix, 1, 3),
     <<"x">> \o ClassificationPrefix,
     <<"C">> \o Tail(ClassificationPrefix),
     <<"s", "q", "l", "_">> \o ClassificationPrefix,
     <<>>}

\* what parse_args can return: --bench_name is required, the rest default
ArgSets ==
    {[bench_name |-> n, model_name |-> "Qwen/Qwen2.5-7B-Instruct",
      device |-> "cuda:0", debug |-> d, use_8bit |-> q, use_wandb |-> w] :
        n \in BenchNames, d \in BOOLEAN, q \in BOOLEAN, w \in BOOLEAN}

MainSelect ==
    /\ mainpc = "args"
    /\ LET sel == SelectBenchmark(args.bench_name)
       IN  IF sel.raised
           THEN /\ mainpc' = "failed"
                /\ main_error' = "ValueError"
                /\ UNCHANGED <<max_tokens, agent_name>>
           ELSE /\ mainpc' = "selected"
                /\ max_tokens' = sel.max_tokens
                /\ agent_name' = sel.agent_name
                /\ UNCHANGED main_error
    /\ UNCHANGED <<args, llm_config, model>>
    /\ UNCHANGED callVars

MainConfig ==
    /\ mainpc = "selected"
    /\ llm_config' = LlmConfig(args, max_tokens)
    /\ mainpc' = "configured"
    /\ UNCHANGED <<args, max_tokens, agent_name, model, main_error>>
    /\ UNCHANGED callVars

MainConstruct ==
    /\ mainpc = "configured"
    /\ model' = LoadModel(llm_config)
    /\ mainpc' = "constructed"
    /\ UNCHANGED <<args, max_tokens, agent_name, llm_config, main_error>>
    /\ UNCHANGED callVars

MainRun ==
    /\ mainpc = "constructed"
    /\ mainpc' = "pipeline"
    /\ UNCHANGED <<args, max_tokens, agent_name, llm_config, model, main_error>>
    /\ UNCHANGED callVars

-----------------------------------------------------------------------------
(* Agent.__call__: shared pieces *)

NoPrompt == [template |-> "None", inputs |-> <<>>]

\* Agent.reset_log_info: self.log_info holds no entry
reset_log_info ==
    [keys |-> {}, input_pred |-> NoPrompt, output_pred |-> None,
     num_input_tokens |-> 0, num_output_tokens |-> 0]

\* Agent.update_log_info(log_data): the entries of log_data are recorded
update_log_info(log, log_data) ==
    [keys              |-> log.keys \cup {"input_pred", "output_pred",
                                          "num_input_tokens", "num_output_tokens"},
     input_pred        |-> log_data.input_pred,
     output_pred       |-> log_data.output_pred,
     num_input_tokens  |-> log_data.num_input_tokens,
     num_output_tokens |-> log_data.num_output_tokens]

\* len(self.tokenizer.encode(t)) for a text: the tokenizer is a collaborator,
\* taken here to give one token per character
EncodeLen(t) == Len(t)

\* the same for system prompt + prompt: one token per template, plus the inputs
PromptEncodeLen(p) == 2 + EncodeLen(p.inputs[1]) + EncodeLen(p.inputs[2])

\* the conversation: system message, then user message
Conversation(system_prompt, p) ==
    <<[role |-> "system", content |-> system_prompt],
      [role |-> "user", content |-> p]>>

\* the request generate_response makes of the model
Request(msgs, config) ==
    [messages |-> msgs, max_new_tokens |-> config.max_tokens, do_sample |-> FALSE]

LogData(p, r) ==
    [input_pred |-> p, output_pred |-> r,
     num_input_tokens |-> PromptEncodeLen(p), num_output_tokens |-> EncodeLen(r)]

\* the locals of an invocation that has not reached them yet
FreshLocals ==
    /\ prompt' = NoPrompt
    /\ messages' = <<>>
    /\ response' = None
    /\ numbers' = <<>>
    /\ result' = None
    /\ error' = ""
    /\ generations' = <<>>
    /\ rng_calls' = 0

-----------------------------------------------------------------------------
(* ClassificationAgent.__call__ *)

RECURSIVE SortedSeq(_)
SortedSeq(S) ==
    IF S = {} THEN <<>> ELSE <<Minimum(S)>> \o SortedSeq(S \ {Minimum(S)})

\* '\n'.join(f"{str(k)}. {v}" ...) over the keys in ks, in that order
RECURSIVE JoinOptions(_, _)
JoinOptions(l2d, ks) ==
    IF Len(ks) = 0 THEN <<>>
    ELSE LET line == StrOfInt(Head(ks)) \o <<".", " ">> \o l2d[Head(ks)]
         IN  IF Len(ks) = 1 THEN line
             ELSE line \o <<"\n">> \o JoinOptions(l2d, Tail(ks))

\* the dict lists its keys in ascending order
OptionText(l2d) == JoinOptions(l2d, SortedSeq(DOMAIN l2d))

ClsSystemPrompt == [template |-> "classification_system", inputs |-> <<>>]

ClsZeroshotPrompt(option_text, t) ==
    [template |-> "classification_zeroshot", inputs |-> <<t, option_text>>]

ClsCall ==
    /\ mainpc = "pipeline"
    /\ agent_name = "ClassificationAgent"
    /\ pc \in {"idle", "returned"}
    /\ \E l \in LabelSets, t \in PatientTexts :
          /\ label2desc' = l
          /\ text' = t
    /\ log_info' = reset_log_info
    /\ steps' = <<"reset">>
    /\ pc' = "reset"
    /\ FreshLocals
    /\ UNCHANGED <<table_schema, user_query>>
    /\ UNCHANGED mainVars

ClsBuildPrompt ==
    /\ agent_name = "ClassificationAgent"
    /\ pc = "reset"
    /\ prompt' = ClsZeroshotPrompt(OptionText(label2desc), text)
    /\ messages' = Conversation(ClsSystemPrompt, prompt')
    /\ steps' = Append(steps, "build")
    /\ pc' = "built"
    /\ UNCHANGED <<label2desc, text, table_schema, user_query, response,
                   numbers, result, log_info, error, generations, rng_calls>>
    /\ UNCHANGED mainVars

ClsGenerate ==
    /\ agent_name = "ClassificationAgent"
    /\ pc = "built"
    /\ \E r \in ClsTexts : response' = r
    /\ generations' = Append(generations, Request(messages, llm_config))
    /\ steps' = Append(steps, "generate")
    /\ pc' = "generated"
    /\ UNCHANGED <<label2desc, text, table_schema, user_query, prompt,
                   messages, numbers, result, log_info, error, rng_calls>>
    /\ UNCHANGED mainVars

ClsExtractLabel ==
    /\ agent_name = "ClassificationAgent"
    /\ pc = "generated"
    /\ \E o \in extract_label(response, label2desc) :
          /\ rng_calls' = rng_calls + o.rng
          /\ IF o.raised
             THEN /\ pc' = "raised"
                  /\ error' = o.error
                  /\ UNCHANGED result
             ELSE /\ pc' = "parsed"
                  /\ result' = o.value
                  /\ UNCHANGED error
    /\ numbers' = FindAll(response)
    /\ steps' = Append(steps, "parse")
    /\ UNCHANGED <<label2desc, text, table_schema, user_query, prompt,
                   messages, response, log_info, generations>>
    /\ UNCHANGED mainVars

ClsUpdateLog ==
    /\ agent_name = "ClassificationAgent"
    /\ pc = "parsed"
    /\ log_info' = update_log_info(log_info, LogData(prompt, response))
    /\ steps' = Append(steps, "log")
    /\ pc' = "logged"
    /\ UNCHANGED <<label2desc, text, table_schema, user_query, prompt,
                   messages, response, numbers, result, error, generations,
                   rng_calls>>
    /\ UNCHANGED mainVars

ClsReturn ==
    /\ agent_name = "ClassificationAgent"
    /\ pc = "logged"
    /\ steps' = Append(steps, "return")
    /\ pc' = "returned"
    /\ UNCHANGED <<label2desc, text, table_schema, user_query, prompt,
                   messages, response, numbers, result, log_info, error,
                   generations, rng_calls>>
    /\ UNCHANGED mainVars

-----------------------------------------------------------------------------
(* SQLGenerationAgent.__call__ *)

SqlSystemPrompt == [template |-> "sql_system", inputs |-> <<>>]

SqlZeroshotPrompt(schema, query) ==
    [template |-> "sql_zeroshot", inputs |-> <<schema, query>>]

SqlCall ==
    /\ mainpc = "pipeline"
    /\ agent_name = "SQLGenerationAgent"
    /\ pc \in {"idle", "returned"}
    /\ \E ts \in TableSchemas, q \in UserQueries :
          /\ table_schema' = ts
          /\ user_query' = q
    /\ log_info' = reset_log_info
    /\ steps' = <<"reset">>
    /\ pc' = "reset"
    /\ FreshLocals
    /\ UNCHANGED <<label2desc, text>>
    /\ UNCHANGED mainVars

SqlBuildPrompt ==
    /\ agent_name = "SQLGenerationAgent"
    /\ pc = "reset"
    /\ prompt' = SqlZeroshotPrompt(table_schema, user_query)
    /\ messages' = Conversation(SqlSystemPrompt, prompt')
    /\ steps' = Append(steps, "build")
    /\ pc' = "built"
    /\ UNCHANGED <<label2desc, text, table_schema, user_query, response,
                   numbers, result, log_info, error, generations, rng_calls>>
    /\ UNCHANGED mainVars

SqlGenerate ==
    /\ agent_name = "SQLGenerationAgent"
    /\ pc = "built"
    /\ \E r \in SqlTexts : response' = r
    /\ generations' = Append(generations, Request(messages, llm_config))
    /\ steps' = Append(steps, "generate")
    /\ pc' = "generated"
    /\ UNCHANGED <<label2desc, text, table_schema, user_query, prompt,
                   messages, numbers, result, log_info, error, rng_calls>>
    /\ UNCHANGED mainVars

SqlParse ==
    /\ agent_name = "SQLGenerationAgent"
    /\ pc = "generated"
    /\ result' = parse_sql(response)
    /\ steps' = Append(steps, "parse")
    /\ pc' = "parsed"
    /\ UNCHANGED <<label2desc, text, table_schema, user_query, prompt,
                   messages, response, numbers, log_info, error, generations,
                   rng_calls>>
    /\ UNCHANGED mainVars

SqlUpdateLog ==
    /\ agent_name = "SQLGenerationAgent"
    /\ pc = "parsed"
    /\ log_info' = update_log_info(log_info, LogData(prompt, response))
    /\ steps' = Append(steps, "log")
    /\ pc' = "logged"
    /\ UNCHANGED <<label2desc, text, table_schema, user_query, prompt,
                   messages, response, numbers, result, error, generations,
                   rng_calls>>
    /\ UNCHANGED mainVars

SqlReturn ==
    /\ agent_name = "SQLGenerationAgent"
    /\ pc = "logged"
    /\ steps' = Append(steps, "return")
    /\ pc' = "returned"
    /\ UNCHANGED <<label2desc, text, table_schema, user_query, prompt,
                   messages, response, numbers, result, log_info, error,
                   generations, rng_calls>>
    /\ UNCHANGED mainVars

-----------------------------------------------------------------------------
(* Specifications *)

\* no invocation of the agent has begun
CallIdle ==
    /\ pc = "idle"
    /\ label2desc = <<>>
    /\ text = None
    /\ table_schema = None
    /\ user_query = None
    /\ prompt = NoPrompt
    /\ messages = <<>>
    /\ response = None
    /\ numbers = <<>>
    /\ result = None
    /\ log_info = reset_log_info
    /\ error = ""
    /\ steps = <<>>
    /\ generations = <<>>
    /\ rng_calls = 0

\* the __main__ block after parse_args
MainInit ==
    /\ mainpc = "args"
    /\ args \in ArgSets
    /\ max_tokens = 0
    /\ agent_name = "None"
    /\ llm_config = NoConfig
    /\ model = "unloaded"
    /\ main_error = ""

\* the __main__ block once it has handed the agent to the pipeline
MainDone(a) ==
    LET sel == SelectBenchmark(a.bench_name)
    IN  /\ ~sel.raised
        /\ mainpc = "pipeline"
        /\ args = a
        /\ max_tokens = sel.max_tokens
        /\ agent_name = sel.agent_name
        /\ llm_config = LlmConfig(a, sel.max_tokens)
        /\ model = LoadModel(LlmConfig(a, sel.max_tokens))
        /\ main_error = ""

DefaultArgs(name) ==
    [bench_name |-> name, model_name |-> "Qwen/Qwen2.5-7B-Instruct",
     device |-> "cuda:0", debug |-> FALSE, use_8bit |-> FALSE,
     use_wandb |-> FALSE]

Init == MainInit /\ CallIdle

Next == MainSelect \/ MainConfig \/ MainConstruct \/ MainRun

Spec == Init /\ [][Next]_vars

InitClassification == MainDone(DefaultArgs(ClassificationPrefix)) /\ CallIdle

NextClassification ==
    \/ ClsCall
    \/ ClsBuildPrompt
    \/ ClsGenerate
    \/ ClsExtractLabel
    \/ ClsUpdateLog
    \/ ClsReturn

SpecClassification == InitClassification /\ [][NextClassification]_vars

InitSql == MainDone(DefaultArgs(SqlGenerationPrefix)) /\ CallIdle

NextSql ==
    \/ SqlCall
    \/ SqlBuildPrompt
    \/ SqlGenerate
    \/ SqlParse
    \/ SqlUpdateLog
    \/ SqlReturn

SpecSql == InitSql /\ [][NextSql]_vars

-----------------------------------------------------------------------------
(* Properties of extract_label *)

\* the invocation has come back from extract_label with a value
Extracted == pc \in {"parsed", "logged", "returned"}

\* the invocation has left extract_label, with a value or with an exception
LeftExtract == Extracted \/ pc = "raised"

\* the "<digits>." matches of s, each as <<first, last>> index of its digit
\* run: the maximal runs of digits that a period follows
MatchRuns(s) ==
    {m \in (1..Len(s)) \X (1..Len(s)) :
        /\ m[1] <= m[2]
        /\ \A k \in m[1]..m[2] : s[k] \in Digits
        /\ (m[1] = 1 \/ s[m[1] - 1] \notin Digits)
        /\ m[2] + 1 <= Len(s)
        /\ s[m[2] + 1] = "."}

Run(s, m) == SubSeq(s, m[1], m[2])

LeftmostRun(s) ==
    Run(s, CHOOSE m \in MatchRuns(s) : \A o \in MatchRuns(s) : m[1] <= o[1])

Keys == DOMAIN label2desc

KeyStrings == {StrOfInt(k) : k \in Keys}

OneMatch == Cardinality(MatchRuns(response)) = 1

NoMatch == MatchRuns(response) = {}

ManyMatches == Cardinality(MatchRuns(response)) > 1

\* C1, as claimed: for every response text and every non-empty LabelSet,
\* extract_label returns the string encoding of one of the LabelSet's keys; on
\* no path is the result out-of-set or unset.
C1_ResultAlwaysInLabelSet ==
    (LeftExtract /\ Keys # {}) => (Extracted /\ result \in KeyStrings)

\* C2, as claimed: with a non-empty LabelSet and exactly one match whose
\* integer value is a key, extract_label returns the string encoding of that
\* key, whatever digit run spelled it, and does not consult the random source.
C2_SingleValidMatchReturnsKey ==
    (LeftExtract /\ Keys # {} /\ OneMatch
        /\ IntOf(LeftmostRun(response)) \in Keys)
    => /\ Extracted
       /\ result = StrOfInt(IntOf(LeftmostRun(response)))
       /\ rng_calls = 0

\* C3: with a non-empty LabelSet, when extract_label takes the random fallback
\* (no match, or one match whose integer value is not a key), it returns the
\* string encoding of a key, drawn by one call of the random source, and in
\* the one-match case never the invalid token.
C3_FallbackInLabelSet ==
    (LeftExtract /\ Keys # {}
        /\ (NoMatch \/ (OneMatch /\ IntOf(LeftmostRun(response)) \notin Keys)))
    => /\ Extracted
       /\ result \in KeyStrings
       /\ rng_calls = 1
       /\ (OneMatch => result # LeftmostRun(response))

\* C3 witness: a single match outside a non-empty LabelSet has been resolved
C3_Witness ==
    /\ pc = "parsed"
    /\ Cardinality(Keys) > 1
    /\ OneMatch
    /\ IntOf(LeftmostRun(response)) \notin Keys
    /\ result \in KeyStrings

\* C4: for every LabelSet, with more than one match extract_label returns the
\* digit run of the leftmost match unchanged, key or not, and does not
\* consult the random source.
C4_ManyMatchesReturnFirstRun ==
    (LeftExtract /\ ManyMatches)
    => /\ Extracted
       /\ result = LeftmostRun(response)
       /\ rng_calls = 0

\* C4 witness: several different matches, the first of them not a key
C4_Witness ==
    /\ pc = "parsed"
    /\ ManyMatches
    /\ Keys # {}
    /\ IntOf(result) \notin Keys
    /\ \E m \in MatchRuns(response) : IntOf(Run(response, m)) \in Keys

\* C7, as claimed: for any response text and any LabelSet, the empty one
\* included, extract_label never raises: the invocation never ends in an
\* exception.
C7_NeverRaises == pc # "raised" /\ error = ""

-----------------------------------------------------------------------------
(* Properties of parse_sql *)

\* an opening sql fence at i with a closing fence at j after it
FencedAt(s, i, j) ==
    /\ OccursAt(s, i, OpenFence)
    /\ j >= i + Len(OpenFence)
    /\ OccursAt(s, j, CloseFence)

HasFencedBlock(s) == \E i, j \in 1..Len(s) : FencedAt(s, i, j)

HasFence(s) == \E j \in 1..Len(s) : OccursAt(s, j, CloseFence)

\* r is c without its leading and trailing whitespace, nothing else changed
IsTrimOf(r, c) ==
    \E a, b \in 0..Len(c) :
        /\ a + b <= Len(c)
        /\ r = SubSeq(c, a + 1, Len(c) - b)
        /\ \A k \in 1..a : c[k] \in Whitespace
        /\ \A k \in (Len(c) - b + 1)..Len(c) : c[k] \in Whitespace
        /\ (Len(r) > 0 => r[1] \notin Whitespace /\ r[Len(r)] \notin Whitespace)

\* r is, for the first opening fence that a closing fence follows and the
\* nearest closing fence after it, what stands between the two, trimmed
IsFirstBlockTrimmed(s, r) ==
    \E i, j \in 1..Len(s) :
        /\ FencedAt(s, i, j)
        /\ \A i2 \in 1..(i - 1) : ~\E j2 \in 1..Len(s) : FencedAt(s, i2, j2)
        /\ \A j2 \in (i + Len(OpenFence))..(j - 1) : ~OccursAt(s, j2, CloseFence)
        /\ IsTrimOf(r, SubSeq(s, i + Len(OpenFence), j - 1))

SqlParsed == pc \in {"parsed", "logged", "returned"}

\* C5: when the response holds an opening sql fence followed by a closing
\* fence, parse_sql returns the content between the first such opening fence
\* and the nearest closing fence after it, trimmed of leading and trailing
\* whitespace and otherwise unchanged, and the result holds no fence marker.
C5_FencedBlockExtracted ==
    (SqlParsed /\ HasFencedBlock(response))
    => /\ IsFirstBlockTrimmed(response, result)
       /\ ~HasFence(result)

\* C5 witness: a block was found after a prefix, and trimming changed it
C5_Witness ==
    /\ pc = "parsed"
    /\ HasFencedBlock(response)
    /\ ~OccursAt(response, 1, OpenFence)
    /\ Len(result) > 0
    /\ \E i \in 1..Len(response) :
          /\ OccursAt(response, i, OpenFence)
          /\ i + Len(OpenFence) <= Len(response)
          /\ response[i + Len(OpenFence)] \in Whitespace

\* C6: when no sql-tagged fenced block is found (no opening sql fence, or one
\* with no closing fence after it), parse_sql returns the response character
\* for character, untrimmed, and does not fail.
C6_NoBlockReturnsRaw ==
    (pc \notin {"idle", "reset", "built", "generated"}
        /\ ~HasFencedBlock(response))
    => (SqlParsed /\ result = response /\ error = "")

\* C6 witness: an opening fence without a closing one, in a response that
\* starts with whitespace
C6_Witness ==
    /\ pc = "parsed"
    /\ ~HasFencedBlock(response)
    /\ \E i \in 1..Len(response) : OccursAt(response, i, OpenFence)
    /\ Len(response) > 0
    /\ response[1] \in Whitespace
    /\ result = response

\* C10: parse_sql is idempotent: parsing its own result gives that result
\* again.
C10_ParseSqlIdempotent == SqlParsed => parse_sql(result) = result

\* C10 witness: a block taken out of a response with two opening fences
C10_Witness ==
    /\ pc = "parsed"
    /\ result # response
    /\ Len(result) > 0
    /\ Cardinality({i \in 1..Len(response) : OccursAt(response, i, OpenFence)}) > 1

-----------------------------------------------------------------------------
(* Properties of __call__ *)

FullSteps == <<"reset", "build", "generate", "parse", "log", "return">>

IsPrefix(p, q) == Len(p) <= Len(q) /\ SubSeq(q, 1, Len(p)) = p

\* C9, as claimed: in every invocation the steps reset, build, generate,
\* parse, log, return occur in this order, each exactly once, with one call of
\* the completion service carrying the system and the user message, and the
\* log is not recorded before the response is parsed.
C9_StepsInOrderOnce ==
    /\ IsPrefix(steps, FullSteps)
    /\ Len(generations) <= 1
    /\ (log_info.keys # {} => Extracted)
    /\ \A g \in 1..Len(generations) :
          /\ Len(generations[g].messages) = 2
          /\ generations[g].messages[1].role = "system"
          /\ generations[g].messages[2].role = "user"
    /\ (pc \in {"returned", "raised"}
          => steps = FullSteps /\ Len(generations) = 1)

-----------------------------------------------------------------------------
(* Properties of the __main__ block *)

HasPrefix(name, p) == Len(name) >= Len(p) /\ \A k \in 1..Len(p) : name[k] = p[k]

\* C8: a benchmark name starting with "classification" selects
\* ClassificationAgent with 32 output tokens, one starting with
\* "sql_generation" selects SQLGenerationAgent with 512, and any other name
\* raises before an agent is constructed or a model loaded.
C8_SelectByPrefix ==
    LET cls == HasPrefix(args.bench_name, ClassificationPrefix)
        sql == HasPrefix(args.bench_name, SqlGenerationPrefix)
        constructed == mainpc \in {"constructed", "pipeline"}
    IN  /\ (mainpc # "args" /\ cls)
            => /\ mainpc # "failed"
               /\ agent_name = "ClassificationAgent"
               /\ max_tokens = 32
               /\ (constructed => llm_config.max_tokens = 32)
        /\ (mainpc # "args" /\ ~cls /\ sql)
            => /\ mainpc # "failed"
               /\ agent_name = "SQLGenerationAgent"
               /\ max_tokens = 512
               /\ (constructed => llm_config.max_tokens = 512)
        /\ (~cls /\ ~sql)
            => /\ mainpc \in {"args", "failed"}
               /\ (mainpc = "failed" => main_error = "ValueError")
               /\ agent_name = "None"
               /\ model = "unloaded"

\* C8 witness: a name that holds "classification" but does not start with it
\* has been refused
C8_Witness ==
    /\ mainpc = "failed"
    /\ main_error = "ValueError"
    /\ model = "unloaded"
    /\ \E k \in 2..Len(args.bench_name) :
          HasPrefix(SubSeq(args.bench_name, k, Len(args.bench_name)),
                    ClassificationPrefix)

=============================================================================
